---- MODULE Spec2Model ----
(***************************************************************************)
(* A model of src/main.py (YouTube analytics exporter): the paginated      *)
(* report fetcher, the sort and metric sanitizers, the per-video daily     *)
(* aggregator with its combined-query fallback, the credential provider,   *)
(* the comment fetcher and the control flow of main.                       *)
(*                                                                         *)
(* Python strings are modelled as sequences of atoms: an atom is either a  *)
(* separator character (",", " ", "-") or a whole word ("video", "day",    *)
(* "views", ...).  split, strip, lstrip and join work on these sequences   *)
(* as the Python methods work on characters.                               *)
(***************************************************************************)
EXTENDS Integers, Sequences, FiniteSets, TLC

VARIABLES
    sort_in, sort_out, sort_pc,
    met_in, met_out, met_out2, met_pc,
    rr_N, rr_P, rr_st, rr_requests, rr_pages, rr_pc, rr_df,
    cm_video_ids, cm_title_map, cm_per_video, cm_since, cm_until,
    cm_idx, cm_remaining, cm_page_token, cm_rows, cm_pc, cm_result,
    cm_log, cm_considered, cm_stopped, cm_errors,
    eq_rows, eq_uploads, eq_metrics, eq_sort, eq_titles_ok, eq_headers_on_empty,
    eq_loop_df, eq_comb_df,
    args, env, pc, loc, token_file, calls, out_dir, archive

sortVars == <<sort_in, sort_out, sort_pc>>
metVars == <<met_in, met_out, met_out2, met_pc>>
rrVars == <<rr_N, rr_P, rr_st, rr_requests, rr_pages, rr_pc, rr_df>>
cmVars == <<cm_video_ids, cm_title_map, cm_per_video, cm_since, cm_until,
            cm_idx, cm_remaining, cm_page_token, cm_rows, cm_pc, cm_result,
            cm_log, cm_considered, cm_stopped, cm_errors>>
eqVars == <<eq_rows, eq_uploads, eq_metrics, eq_sort, eq_titles_ok,
            eq_headers_on_empty, eq_loop_df, eq_comb_df>>
mainVars == <<args, env, pc, loc, token_file, calls, out_dir, archive>>
vars == <<sortVars, metVars, rrVars, cmVars, eqVars, mainVars>>

(***************************************************************************)
(* Bounds of the model.                                                    *)
(***************************************************************************)
MaxSortLen == 4
MaxMetricsLen == 5
MaxRows == 6
MaxPage == 3
MaxPerVideo == 2
MaxOverPage == 2

(***************************************************************************)
(* Strings.                                                                *)
(***************************************************************************)
StrsOver(alphabet, n) ==
    UNION {[1..k -> alphabet] : k \in 0..n}

\* Optional[str]: None is [some |-> FALSE].
None == [some |-> FALSE, val |-> <<>>]
Some(s) == [some |-> TRUE, val |-> s]

RECURSIVE SplitFrom(_, _, _)
SplitFrom(s, cur, acc) ==
    IF s = <<>> THEN Append(acc, cur)
    ELSE IF Head(s) = "," THEN SplitFrom(Tail(s), <<>>, Append(acc, cur))
    ELSE SplitFrom(Tail(s), Append(cur, Head(s)), acc)

\* str.split(",")
Split(s) == SplitFrom(s, <<>>, <<>>)

RECURSIVE LStripChar(_, _)
LStripChar(s, c) ==
    IF s # <<>> /\ Head(s) = c THEN LStripChar(Tail(s), c) ELSE s

RECURSIVE RStripChar(_, _)
RStripChar(s, c) ==
    IF s # <<>> /\ s[Len(s)] = c
    THEN RStripChar(SubSeq(s, 1, Len(s) - 1), c)
    ELSE s

\* str.strip(): whitespace off both ends
Strip(s) == RStripChar(LStripChar(s, " "), " ")

RECURSIVE Join(_)
\* ",".join(parts)
Join(parts) ==
    IF parts = <<>> THEN <<>>
    ELSE IF Len(parts) = 1 THEN parts[1]
    ELSE parts[1] \o <<",">> \o Join(Tail(parts))

RECURSIVE MapStrip(_)
MapStrip(parts) ==
    IF parts = <<>> THEN <<>>
    ELSE <<Strip(Head(parts))>> \o MapStrip(Tail(parts))

NonEmpty(p) == p # <<>>

Contains(seq, x) == \E i \in 1..Len(seq) : seq[i] = x

(***************************************************************************)
(* _sanitize_sort_for_day_only                                             *)
(***************************************************************************)
KeyIsNot(p, word) == LStripChar(p, "-") # <<word>>

\* a mutant: the video keys are compared without lstrip("-")
sanitize_sort_no_lstrip(sort) ==
    IF ~sort.some \/ sort.val = <<>> THEN <<"day">>
    ELSE LET parts0 == SelectSeq(MapStrip(Split(sort.val)), NonEmpty)
             parts1 == SelectSeq(parts0, LAMBDA p : p # <<"video">>)
             parts2 == IF parts1 = <<>> THEN << <<"day">> >> ELSE parts1
             parts3 == IF \A i \in 1..Len(parts2) : KeyIsNot(parts2[i], "day")
                       THEN << <<"day">> >> \o parts2
                       ELSE parts2
         IN  Join(parts3)

_sanitize_sort_for_day_only(sort) ==
    IF ~sort.some \/ sort.val = <<>> THEN <<"day">>
    ELSE LET parts0 == SelectSeq(MapStrip(Split(sort.val)), NonEmpty)
             parts1 == SelectSeq(parts0, LAMBDA p : KeyIsNot(p, "video"))
             parts2 == IF parts1 = <<>> THEN << <<"day">> >> ELSE parts1
             parts3 == IF \A i \in 1..Len(parts2) : KeyIsNot(parts2[i], "day")
                       THEN << <<"day">> >> \o parts2
                       ELSE parts2
         IN  Join(parts3)

SortAlphabet == {"video", "day", "views", "-", " ", ","}
SortInputs == {None} \cup {Some(s) : s \in StrsOver(SortAlphabet, MaxSortLen)}

SortInit ==
    /\ sort_in \in SortInputs
    /\ sort_out = <<>>
    /\ sort_pc = "call"

SortIdle ==
    /\ sort_in = None
    /\ sort_out = <<>>
    /\ sort_pc = "off"

SanitizeSort ==
    /\ sort_pc = "call"
    /\ sort_out' = _sanitize_sort_for_day_only(sort_in)
    /\ sort_pc' = "returned"
    /\ UNCHANGED sort_in

(***************************************************************************)
(* sanitize_metrics                                                        *)
(***************************************************************************)
\* a mutant: one alias is mapped to another alias instead of a canonical name
METRIC_ALIASES_chained ==
    (<<"watchTime">> :> <<"estimated_watch_time_minutes">>)
    @@ (<<"avgViewDuration">> :> <<"averageViewDuration">>)
    @@ (<<"avg_view_duration">> :> <<"averageViewDuration">>)
    @@ (<<"estimated_watch_time_minutes">> :> <<"estimatedMinutesWatched">>)

METRIC_ALIASES ==
    (<<"watchTime">> :> <<"estimatedMinutesWatched">>)
    @@ (<<"avgViewDuration">> :> <<"averageViewDuration">>)
    @@ (<<"avg_view_duration">> :> <<"averageViewDuration">>)
    @@ (<<"estimated_watch_time_minutes">> :> <<"estimatedMinutesWatched">>)

\* dict.get(m, m)
AliasGet(m) == IF m \in DOMAIN METRIC_ALIASES THEN METRIC_ALIASES[m] ELSE m

RECURSIVE CleanMetrics(_, _)
\* the for loop of sanitize_metrics over the split parts
CleanMetrics(raws, cleaned) ==
    IF raws = <<>> THEN cleaned
    ELSE LET m0 == Strip(Head(raws))
             m == AliasGet(m0)
         IN  IF m0 = <<>> THEN CleanMetrics(Tail(raws), cleaned)
             ELSE IF Contains(cleaned, m) THEN CleanMetrics(Tail(raws), cleaned)
             ELSE CleanMetrics(Tail(raws), Append(cleaned, m))

sanitize_metrics(metrics) == Join(CleanMetrics(Split(metrics), <<>>))

MetricsAlphabet ==
    {"views", "watchTime", "estimatedMinutesWatched", "avgViewDuration",
     "averageViewDuration", " ", ","}
MetricsInputs == StrsOver(MetricsAlphabet, MaxMetricsLen)

MetInit ==
    /\ met_in \in MetricsInputs
    /\ met_out = <<>>
    /\ met_out2 = <<>>
    /\ met_pc = "call"

MetIdle ==
    /\ met_in = <<>>
    /\ met_out = <<>>
    /\ met_out2 = <<>>
    /\ met_pc = "off"

SanitizeMetrics ==
    /\ met_pc = "call"
    /\ met_out' = sanitize_metrics(met_in)
    /\ met_pc' = "once"
    /\ UNCHANGED <<met_in, met_out2>>

SanitizeMetricsAgain ==
    /\ met_pc = "once"
    /\ met_out2' = sanitize_metrics(met_out)
    /\ met_pc' = "twice"
    /\ UNCHANGED <<met_in, met_out>>

(***************************************************************************)
(* Tables (pandas DataFrame): a column list and a row list, each row a     *)
(* list of cells aligned with the columns.  ok = FALSE stands for the      *)
(* constructor or method having raised.                                    *)
(***************************************************************************)
Raised == [ok |-> FALSE, cols |-> <<>>, rows |-> <<>>]

\* pd.DataFrame(rows, columns=cols): rows of another width than cols raise
DataFrame(rows, cols) ==
    IF \E i \in 1..Len(rows) : Len(rows[i]) # Len(cols)
    THEN Raised
    ELSE [ok |-> TRUE, cols |-> cols, rows |-> rows]

\* df.empty
DfEmpty(df) == df.rows = <<>> \/ df.cols = <<>>

(***************************************************************************)
(* run_report                                                              *)
(***************************************************************************)
\* the state of run_report before its first request
run_report_start ==
    [start_index |-> 1, headers |-> None, rows_all |-> <<>>, brk |-> FALSE]

\* a mutant: the loop also stops after a full page
run_report_iter_stop_on_full(st, resp, page_size) ==
    LET headers == IF ~st.headers.some THEN Some(resp.columnHeaders)
                   ELSE st.headers
        rows == resp.rows
    IN  IF rows = <<>>
        THEN [st EXCEPT !.headers = headers, !.brk = TRUE]
        ELSE IF Len(rows) <= page_size
        THEN [st EXCEPT !.headers = headers,
                        !.rows_all = st.rows_all \o rows,
                        !.brk = TRUE]
        ELSE [st EXCEPT !.headers = headers,
                        !.rows_all = st.rows_all \o rows,
                        !.start_index = st.start_index + page_size]

\* one pass through the while loop, given the response to its request
run_report_iter(st, resp, page_size) ==
    LET headers == IF ~st.headers.some THEN Some(resp.columnHeaders)
                   ELSE st.headers
        rows == resp.rows
    IN  IF rows = <<>>
        THEN [st EXCEPT !.headers = headers, !.brk = TRUE]
        ELSE IF Len(rows) < page_size
        THEN [st EXCEPT !.headers = headers,
                        !.rows_all = st.rows_all \o rows,
                        !.brk = TRUE]
        ELSE [st EXCEPT !.headers = headers,
                        !.rows_all = st.rows_all \o rows,
                        !.start_index = st.start_index + page_size]

\* the return statement: pd.DataFrame(rows_all, columns=headers or [])
run_report_return(st) ==
    DataFrame(st.rows_all, IF st.headers.some THEN st.headers.val ELSE <<>>)

\* the endpoint: the rows of `data` from record offset startIndex (1-based),
\* at most maxResults of them
PageOf(data, startIndex, maxResults) ==
    IF startIndex > Len(data) THEN <<>>
    ELSE SubSeq(data, startIndex,
                IF startIndex + maxResults - 1 < Len(data)
                THEN startIndex + maxResults - 1 ELSE Len(data))

\* the rows a stand-alone endpoint holds: row i is <<day i, value i>>
RowsOfN(n) == [i \in 1..n |-> <<i, i>>]

\* the headers a response may carry (none, or one of two two-column headers)
HeaderChoices ==
    { <<>>, << <<"day">>, <<"views">> >>, << <<"day">>, <<"likes">> >> }

RRInit ==
    /\ rr_N \in 0..MaxRows
    /\ rr_P \in 1..MaxPage
    /\ rr_st = run_report_start
    /\ rr_requests = <<>>
    /\ rr_pages = <<>>
    /\ rr_pc = "loop"
    /\ rr_df = Raised

RRIdle ==
    /\ rr_N = 0
    /\ rr_P = 1
    /\ rr_st = run_report_start
    /\ rr_requests = <<>>
    /\ rr_pages = <<>>
    /\ rr_pc = "off"
    /\ rr_df = Raised

\* one request of run_report and the rest of that pass of the loop; the pass
\* that breaks also returns (or raises in the DataFrame constructor)
RunReportPage ==
    /\ rr_pc = "loop"
    /\ \E h \in HeaderChoices :
        LET resp == [columnHeaders |-> h,
                     rows |-> PageOf(RowsOfN(rr_N), rr_st.start_index, rr_P)]
            st == run_report_iter(rr_st, resp, rr_P)
        IN  /\ rr_requests' = Append(rr_requests, rr_st.start_index)
            /\ rr_pages' = Append(rr_pages, resp)
            /\ rr_st' = st
            /\ IF st.brk
               THEN /\ rr_df' = run_report_return(st)
                    /\ rr_pc' = IF run_report_return(st).ok THEN "returned"
                                ELSE "raised"
               ELSE UNCHANGED <<rr_df, rr_pc>>
    /\ UNCHANGED <<rr_N, rr_P>>

\* title_map.get(vid, "")
TitleGet(title_map, vid) ==
    IF vid \in DOMAIN title_map THEN title_map[vid] ELSE <<>>

(***************************************************************************)
(* DataFrame methods used by the aggregator.                               *)
(***************************************************************************)
IndexOf(seq, x) == CHOOSE i \in 1..Len(seq) : seq[i] = x

InsertAt(seq, at, x) ==
    SubSeq(seq, 1, at) \o <<x>> \o SubSeq(seq, at + 1, Len(seq))

\* df.insert(at, name, value): at counts from 0; an existing name raises
DfInsert(df, at, name, value) ==
    IF ~df.ok \/ Contains(df.cols, name) \/ at > Len(df.cols) THEN Raised
    ELSE [ok |-> TRUE,
          cols |-> InsertAt(df.cols, at, name),
          rows |-> [i \in 1..Len(df.rows) |-> InsertAt(df.rows[i], at, value)]]

\* df.rename(columns={old: new})
DfRename(df, old, new) ==
    [df EXCEPT !.cols = [i \in 1..Len(df.cols) |->
                            IF df.cols[i] = old THEN new ELSE df.cols[i]]]

\* df[cols]: a missing column raises KeyError
DfSelect(df, cols) ==
    IF ~df.ok \/ \E i \in 1..Len(cols) : ~Contains(df.cols, cols[i]) THEN Raised
    ELSE [ok |-> TRUE,
          cols |-> cols,
          rows |-> [r \in 1..Len(df.rows) |->
                      [i \in 1..Len(cols) |-> df.rows[r][IndexOf(df.cols, cols[i])]]]]

RECURSIVE UnionCols(_, _)
\* the columns of a concatenation: in the order of their first appearance
UnionCols(colLists, acc) ==
    IF colLists = <<>> THEN acc
    ELSE UnionCols(Tail(colLists),
                   acc \o SelectSeq(Head(colLists), LAMBDA c : ~Contains(acc, c)))

NaN == <<"NaN">>

RECURSIVE ConcatRows(_, _)
ConcatRows(dfs, cols) ==
    IF dfs = <<>> THEN <<>>
    ELSE LET df == Head(dfs)
         IN  [r \in 1..Len(df.rows) |->
                 [i \in 1..Len(cols) |->
                     IF Contains(df.cols, cols[i])
                     THEN df.rows[r][IndexOf(df.cols, cols[i])]
                     ELSE NaN]]
             \o ConcatRows(Tail(dfs), cols)

\* pd.concat(dfs, ignore_index=True)
DfConcat(dfs) ==
    LET cols == UnionCols([i \in 1..Len(dfs) |-> dfs[i].cols], <<>>)
    IN  IF \E i \in 1..Len(dfs) : ~dfs[i].ok THEN Raised
        ELSE [ok |-> TRUE, cols |-> cols, rows |-> ConcatRows(dfs, cols)]

KEY_COLS == << <<"videoId">>, <<"videoTitle">>, <<"day">> >>

\* a mutant: the key columns are put back behind the other columns
ReorderKeyCols_keys_last(df) ==
    DfSelect(df, SelectSeq(df.cols, LAMBDA c : ~Contains(KEY_COLS, c)) \o KEY_COLS)

\* cols = list(df.columns); remove the key columns that are there;
\* df[["videoId", "videoTitle", "day"] + cols]
ReorderKeyCols(df) ==
    DfSelect(df, KEY_COLS \o SelectSeq(df.cols, LAMBDA c : ~Contains(KEY_COLS, c)))

\* [m.strip() for m in metrics.split(",")]
MetricNames(metrics) == MapStrip(Split(metrics))

\* pd.DataFrame(columns=["videoId", "videoTitle", "day"] + metric names)
DefaultFrame(metrics) == DataFrame(<<>>, KEY_COLS \o MetricNames(metrics))

(***************************************************************************)
(* The analytics endpoint and the Data API, as the aggregator sees them.   *)
(* The channel has the videos of Videos, the endpoint one row per (video,  *)
(* day) pair of the data set; a response's header names the dimensions,    *)
(* then the metrics in the order of the request.                           *)
(***************************************************************************)
Videos == {<<"v1">>, <<"v2">>}
VideoOrder == << <<"v1">>, <<"v2">> >>
DayOrder == << <<"d1">>, <<"d2">> >>
Days == {DayOrder[i] : i \in 1..Len(DayOrder)}

\* the titles the Data API knows; a video it does not know is absent
ApiTitles == [v \in {<<"v1">>} |-> <<"title1">>]

\* page_size=200 (line 317)
PAGE_SIZE == 200

RECURSIVE Reverse(_)
Reverse(seq) == IF seq = <<>> THEN <<>> ELSE Reverse(Tail(seq)) \o <<Head(seq)>>

\* the endpoint orders by day, descending when the first day key has a '-'
SortDescending(sort) ==
    LET keys == SelectSeq(MapStrip(Split(sort)),
                          LAMBDA k : LStripChar(k, "-") = <<"day">>)
    IN  keys # <<>> /\ Head(Head(keys)) = "-"

\* the value of metric m of video v on day d
Cell(v, d, m) == v \o d \o m

MetricCells(v, d, names) == [i \in 1..Len(names) |-> Cell(v, d, names[i])]

\* the endpoint's rows for dimensions="day", filters="video==<vid>"
DayRows(rows, vid, metrics, sort) ==
    LET days == SelectSeq(DayOrder, LAMBDA d : <<vid, d>> \in rows)
        ordered == IF SortDescending(sort) THEN Reverse(days) ELSE days
    IN  [i \in 1..Len(ordered) |->
            <<ordered[i]>> \o MetricCells(vid, ordered[i], Split(metrics))]

PairOrder ==
    << <<VideoOrder[1], DayOrder[1]>>, <<VideoOrder[2], DayOrder[1]>>,
       <<VideoOrder[1], DayOrder[2]>>, <<VideoOrder[2], DayOrder[2]>> >>

\* the endpoint's rows for dimensions="video,day"
VideoDayRows(rows, metrics, sort) ==
    LET pairs == SelectSeq(PairOrder, LAMBDA p : p \in rows)
        ordered == IF SortDescending(sort) THEN Reverse(pairs) ELSE pairs
    IN  [i \in 1..Len(ordered) |->
            <<ordered[i][1], ordered[i][2]>>
            \o MetricCells(ordered[i][1], ordered[i][2], Split(metrics))]

\* the columnHeaders of a response; a response without rows may carry none
ResponseHeader(dims, metrics, rows, headers_on_empty) ==
    IF rows = <<>> /\ ~headers_on_empty THEN <<>>
    ELSE dims \o Split(metrics)

RECURSIVE run_report_loop(_, _, _, _)
\* the while loop of run_report against an endpoint holding `data`
run_report_loop(st, data, header, page_size) ==
    LET resp == [columnHeaders |-> header,
                 rows |-> PageOf(data, st.start_index, page_size)]
        st2 == run_report_iter(st, resp, page_size)
    IN  IF st2.brk THEN st2 ELSE run_report_loop(st2, data, header, page_size)

\* run_report as a whole
run_report(data, header, page_size) ==
    run_report_return(run_report_loop(run_report_start, data, header, page_size))

\* get_video_title_map: the titles of the ids the Data API knows
get_video_title_map(video_ids) ==
    [v \in {video_ids[i] : i \in 1..Len(video_ids)} \cap DOMAIN ApiTitles |->
        ApiTitles[v]]

(***************************************************************************)
(* videos_daily_via_loop and videos_daily_via_analytics_only               *)
(***************************************************************************)
\* the per-video query of the loop (lines 382-391 and 545-554)
per_video_report(rows, vid, metrics, safe_sort, headers_on_empty) ==
    LET data == DayRows(rows, vid, metrics, safe_sort)
    IN  run_report(data,
                   ResponseHeader(<< <<"day">> >>, metrics, data, headers_on_empty),
                   PAGE_SIZE)

\* the rest of one pass of the for loop (lines 392-395): dfs afterwards
loop_collect(dfs, df, vid, title_map) ==
    IF ~DfEmpty(df)
    THEN Append(dfs, DfInsert(DfInsert(df, 0, <<"videoId">>, vid),
                              1, <<"videoTitle">>, TitleGet(title_map, vid)))
    ELSE dfs

\* lines 399-410
loop_merge(dfs, metrics) ==
    IF dfs # <<>> THEN ReorderKeyCols(DfConcat(dfs)) ELSE DefaultFrame(metrics)

RECURSIVE loop_over(_, _, _, _, _, _, _)
\* the for loop of videos_daily_via_loop from video i on
loop_over(i, dfs, video_ids, title_map, rows, metrics, ctx) ==
    IF i > Len(video_ids) THEN dfs
    ELSE loop_over(i + 1,
                   loop_collect(dfs,
                                per_video_report(rows, video_ids[i], metrics,
                                                 ctx.safe_sort, ctx.headers_on_empty),
                                video_ids[i], title_map),
                   video_ids, title_map, rows, metrics, ctx)

\* videos_daily_via_loop when no call raises but, possibly, the title lookup
videos_daily_via_loop(rows, uploads, titles_ok, metrics, sort, headers_on_empty) ==
    LET title_map == IF titles_ok THEN get_video_title_map(uploads) ELSE <<>>
        ctx == [safe_sort |-> _sanitize_sort_for_day_only(sort),
                headers_on_empty |-> headers_on_empty]
    IN  loop_merge(loop_over(1, <<>>, uploads, title_map, rows, metrics, ctx), metrics)

\* the ids of sorted(set(df["videoId"]))
UniqueVideoIds(df) ==
    LET at == IndexOf(df.cols, <<"videoId">>)
    IN  SelectSeq(VideoOrder, LAMBDA v : \E r \in 1..Len(df.rows) : df.rows[r][at] = v)

\* df["videoTitle"] = df["videoId"].map(lambda x: title_map.get(str(x), ""))
DfMapTitles(df, title_map) ==
    LET idAt == IndexOf(df.cols, <<"videoId">>)
        titleAt == IndexOf(df.cols, <<"videoTitle">>)
    IN  [df EXCEPT !.rows =
            [r \in 1..Len(df.rows) |->
                [df.rows[r] EXCEPT ![titleAt] = TitleGet(title_map, df.rows[r][idAt])]]]

\* lines 425-445, given the table run_report returned; titles is "ok",
\* "raise" (the lookup raises and is caught) or "none" (youtube_opt is None)
combined_finish(df, titles) ==
    IF DfEmpty(df) THEN df
    ELSE LET renamed == IF Contains(df.cols, <<"video">>)
                        THEN DfRename(df, <<"video">>, <<"videoId">>)
                        ELSE df
             inserted == DfInsert(renamed, 1, <<"videoTitle">>, <<>>)
             titled == IF titles = "ok" /\ inserted.ok
                          /\ Contains(inserted.cols, <<"videoId">>)
                       THEN DfMapTitles(inserted,
                                get_video_title_map(UniqueVideoIds(inserted)))
                       ELSE inserted
         IN  ReorderKeyCols(titled)

\* the query of videos_daily_via_analytics_only (lines 416-424)
combined_report(rows, metrics, sort, headers_on_empty) ==
    LET data == VideoDayRows(rows, metrics,
                             IF sort.some /\ sort.val # <<>> THEN sort.val
                             ELSE <<"day">>)
    IN  run_report(data,
                   ResponseHeader(<< <<"video">>, <<"day">> >>, metrics, data,
                                  headers_on_empty),
                   PAGE_SIZE)

\* videos_daily_via_analytics_only when the query does not raise
videos_daily_via_analytics_only(rows, titles, metrics, sort, headers_on_empty) ==
    combined_finish(combined_report(rows, metrics, sort, headers_on_empty), titles)

(***************************************************************************)
(* Both aggregators applied to one data set.                               *)
(***************************************************************************)
UploadLists ==
    {<<>>, << <<"v1">> >>, << <<"v1">>, <<"v2">> >>, << <<"v2">>, <<"v1">> >>}

MetricsChoices ==
    {<<"views">>, <<"views", ",", "estimatedMinutesWatched">>}

SortChoices == {None, Some(<<"day", ",", "video">>), Some(<<"-", "day">>)}

EQInit ==
    /\ eq_uploads \in UploadLists
    /\ eq_rows \in SUBSET ({eq_uploads[i] : i \in 1..Len(eq_uploads)} \X Days)
    /\ eq_metrics \in MetricsChoices
    /\ eq_sort \in SortChoices
    /\ eq_titles_ok \in BOOLEAN
    /\ eq_headers_on_empty \in BOOLEAN
    /\ eq_loop_df = None
    /\ eq_comb_df = None

EQIdle ==
    /\ eq_uploads = <<>>
    /\ eq_rows = {}
    /\ eq_metrics = <<>>
    /\ eq_sort = None
    /\ eq_titles_ok = FALSE
    /\ eq_headers_on_empty = FALSE
    /\ eq_loop_df = None
    /\ eq_comb_df = None

eqInputs == <<eq_rows, eq_uploads, eq_metrics, eq_sort, eq_titles_ok,
              eq_headers_on_empty>>

EqRunLoop ==
    /\ ~eq_loop_df.some
    /\ eq_metrics # <<>>
    /\ eq_loop_df' = Some(videos_daily_via_loop(eq_rows, eq_uploads, eq_titles_ok,
                                                eq_metrics, eq_sort,
                                                eq_headers_on_empty))
    /\ UNCHANGED <<eqInputs, eq_comb_df>>

EqRunCombined ==
    /\ ~eq_comb_df.some
    /\ eq_metrics # <<>>
    /\ eq_comb_df' = Some(videos_daily_via_analytics_only(
                              eq_rows, IF eq_titles_ok THEN "ok" ELSE "raise",
                              eq_metrics, eq_sort, eq_headers_on_empty))
    /\ UNCHANGED <<eqInputs, eq_loop_df>>

(***************************************************************************)
(* fetch_latest_comments                                                   *)
(*                                                                         *)
(* A response page is given by the publish times of its items, as a count  *)
(* per time; the rows a page contributes are kept as one chunk             *)
(* [videoId, videoTitle, count] standing for `count` consecutive rows.     *)
(***************************************************************************)
VideoLists == {<<>>, << <<"v1">> >>, << <<"v1">>, <<"v2">> >>}

\* the largest page the comments endpoint is asked for (line 255)
COMMENT_PAGE_MAX == 100

SKIP_MARKERS ==
    {"insufficientPermissions", "forbidden", "commentsDisabled",
     "disabled comments", "videoNotFound"}

Min(a, b) == IF a < b THEN a ELSE b

\* a mutant: every page asks for the maximum
CommentPageSize_always_max(remaining) == COMMENT_PAGE_MAX

\* page_size = min(remaining, 100)
CommentPageSize(remaining) == Min(remaining, COMMENT_PAGE_MAX)

\* a mutant: "videoNotFound" is not among the markers
CommentErrorSkippable_no_not_found(e) ==
    /\ e.http
    /\ \E marker \in SKIP_MARKERS \ {"videoNotFound"} : Contains(e.msg, marker)

\* except HttpError as e: any(marker in str(e) for marker in SKIP_MARKERS)
CommentErrorSkippable(e) ==
    /\ e.http
    /\ \E marker \in SKIP_MARKERS : Contains(e.msg, marker)

\* the window bounds, as seconds on some clock: since 00:00:00, until 23:59:59
SinceDt == 10
UntilDt == 20
PubTimes == {SinceDt - 1, SinceDt, UntilDt, UntilDt + 1}

\* the test of lines 280-283: the item is kept
InWindow(published, since_dt, until_dt) ==
    /\ ~(since_dt.some /\ published < since_dt.val)
    /\ ~(until_dt.some /\ published > until_dt.val)

RECURSIVE SumOver(_, _)
SumOver(f, S) ==
    IF S = {} THEN 0
    ELSE LET x == CHOOSE y \in S : TRUE IN f[x] + SumOver(f, S \ {x})

\* the number of rows the for loop over a page's items appends
KeptOf(items, since_dt, until_dt) ==
    SumOver(items, {t \in PubTimes : InWindow(t, since_dt, until_dt)})

ItemCount(items) == SumOver(items, PubTimes)

\* the pages of n items the endpoint may answer with: all items published at
\* one time, or one item just outside the window and the others on its edge
PagesOf(n) ==
    {[t \in PubTimes |-> IF t = a THEN n ELSE 0] : a \in PubTimes}
    \cup (IF n < 2 THEN {}
          ELSE {[t \in PubTimes |-> IF t = SinceDt - 1 THEN 1
                                    ELSE IF t = SinceDt THEN n - 1 ELSE 0],
                [t \in PubTimes |-> IF t = UntilDt + 1 THEN 1
                                    ELSE IF t = UntilDt THEN n - 1 ELSE 0]})

\* the sizes a page may have when maxResults items were asked for: the
\* endpoint never returns more than it was asked for
PageSizesFor(maxResults) == {0, maxResults - 1, maxResults} \cap 0..maxResults

CommentErrors ==
    {[http |-> TRUE, msg |-> <<m>>] :
        m \in SKIP_MARKERS \cup {"quotaExceeded", "backendError"}}
    \cup {[http |-> FALSE, msg |-> <<"timeout">>],
          [http |-> FALSE, msg |-> <<"forbidden">>]}

PerVideoChoices ==
    0..MaxPerVideo
    \cup (COMMENT_PAGE_MAX + 1)..(COMMENT_PAGE_MAX + MaxOverPage)

CMInit ==
    /\ cm_video_ids \in VideoLists
    /\ cm_title_map \in {<<>>, [v \in {<<"v1">>} |-> <<"title">>]}
    /\ cm_per_video \in PerVideoChoices
    /\ \E w \in {<<[some |-> TRUE, val |-> SinceDt], [some |-> TRUE, val |-> UntilDt]>>,
                  <<[some |-> TRUE, val |-> SinceDt], None>>,
                  <<None, None>>} :
          cm_since = w[1] /\ cm_until = w[2]
    /\ cm_idx = 1
    /\ cm_remaining = 0
    /\ cm_page_token = None
    /\ cm_rows = <<>>
    /\ cm_pc = "for"
    /\ cm_result = None
    /\ cm_log = <<>>
    /\ cm_considered = [i \in 1..Len(cm_video_ids) |-> 0]
    /\ cm_stopped = [i \in 1..Len(cm_video_ids) |-> FALSE]
    /\ cm_errors = <<>>

CMIdle ==
    /\ cm_video_ids = <<>>
    /\ cm_title_map = <<>>
    /\ cm_per_video = 0
    /\ cm_since = None
    /\ cm_until = None
    /\ cm_idx = 1
    /\ cm_remaining = 0
    /\ cm_page_token = None
    /\ cm_rows = <<>>
    /\ cm_pc = "off"
    /\ cm_result = None
    /\ cm_log = <<>>
    /\ cm_considered = <<>>
    /\ cm_stopped = <<>>
    /\ cm_errors = <<>>

cmInputs == <<cm_video_ids, cm_title_map, cm_per_video, cm_since, cm_until>>

\* the for loop takes the next video: remaining = per_video, page_token = None
CmForNext ==
    /\ cm_pc = "for"
    /\ cm_idx <= Len(cm_video_ids)
    /\ cm_remaining' = cm_per_video
    /\ cm_page_token' = None
    /\ cm_pc' = "while"
    /\ UNCHANGED <<cmInputs, cm_idx, cm_rows, cm_result, cm_log, cm_considered,
                   cm_stopped, cm_errors>>

\* the for loop is exhausted: return pd.DataFrame(rows)
CmReturn ==
    /\ cm_pc = "for"
    /\ cm_idx > Len(cm_video_ids)
    /\ cm_result' = Some(cm_rows)
    /\ cm_pc' = "returned"
    /\ UNCHANGED <<cmInputs, cm_idx, cm_remaining, cm_page_token, cm_rows, cm_log,
                   cm_considered, cm_stopped, cm_errors>>

\* while remaining > 0 is false: on to the next video
CmWhileExit ==
    /\ cm_pc = "while"
    /\ ~(cm_remaining > 0)
    /\ cm_idx' = cm_idx + 1
    /\ cm_pc' = "for"
    /\ UNCHANGED <<cmInputs, cm_remaining, cm_page_token, cm_rows, cm_result, cm_log,
                   cm_considered, cm_stopped, cm_errors>>

CmLogRequest(page_size) ==
    cm_log' = Append(cm_log, [idx |-> cm_idx, maxResults |-> page_size,
                              consideredBefore |-> cm_considered[cm_idx],
                              afterStop |-> cm_stopped[cm_idx]])

\* one pass of the while loop whose request is answered with a page
CmPage ==
    /\ cm_pc = "while"
    /\ cm_remaining > 0
    /\ LET page_size == CommentPageSize(cm_remaining)
           vid == cm_video_ids[cm_idx]
       IN  /\ CmLogRequest(page_size)
           /\ \E n \in PageSizesFor(page_size) :
              \E items \in PagesOf(n) :
              \E next \in BOOLEAN :
                LET kept == KeptOf(items, cm_since, cm_until)
                    brk == n = 0 \/ ~next
                IN  /\ cm_considered' =
                          [cm_considered EXCEPT ![cm_idx] = @ + ItemCount(items)]
                    /\ cm_stopped' =
                          [cm_stopped EXCEPT ![cm_idx] =
                              n = 0 \/ ~next
                              \/ cm_considered[cm_idx] + n >= cm_per_video]
                    /\ IF n = 0
                       THEN UNCHANGED <<cm_rows, cm_remaining, cm_page_token>>
                       ELSE /\ cm_rows' =
                                  IF kept = 0 THEN cm_rows
                                  ELSE Append(cm_rows,
                                         [videoId |-> vid,
                                          videoTitle |-> TitleGet(cm_title_map, vid),
                                          count |-> kept])
                            /\ cm_remaining' = cm_remaining - n
                            /\ cm_page_token' =
                                  IF next THEN Some(<<"token">>) ELSE None
                    /\ IF brk
                       THEN cm_idx' = cm_idx + 1 /\ cm_pc' = "for"
                       ELSE UNCHANGED <<cm_idx, cm_pc>>
    /\ UNCHANGED <<cmInputs, cm_result, cm_errors>>

\* one pass of the while loop whose request raises
CmError ==
    /\ cm_pc = "while"
    /\ cm_remaining > 0
    /\ CmLogRequest(CommentPageSize(cm_remaining))
    /\ \E e \in CommentErrors :
        /\ cm_errors' = Append(cm_errors, [idx |-> cm_idx, err |-> e,
                                            rowsBefore |-> cm_rows])
        /\ IF CommentErrorSkippable(e)
           THEN cm_idx' = cm_idx + 1 /\ cm_pc' = "for"
           ELSE cm_pc' = "raised" /\ UNCHANGED cm_idx
    /\ cm_stopped' = [cm_stopped EXCEPT ![cm_idx] = TRUE]
    /\ UNCHANGED <<cmInputs, cm_remaining, cm_page_token, cm_rows, cm_result,
                   cm_considered>>

CmNext == CmForNext \/ CmReturn \/ CmWhileExit \/ CmPage \/ CmError

(***************************************************************************)
(* get_credentials                                                         *)
(*                                                                         *)
(* The token file holds a credential or is absent.  What the environment   *)
(* decides is passed as an oracle: whether the file loads, whether the     *)
(* loaded credential reports the scopes stored in the file or the scopes   *)
(* passed to from_authorized_user_file, whether a refresh succeeds, and    *)
(* what the consent flow does (raises, or grants a scope set).  The result  *)
(* records how the credential came about: loaded from the file and used    *)
(* as it is, refreshed (lines 84-88), or issued by the consent flow        *)
(* (lines 90-96); only the consent branch writes the token file (line 96). *)
(***************************************************************************)
SCOPES_BASE == {"yt-analytics.readonly", "youtube.readonly"}
SCOPE_FORCE_SSL == "youtube.force-ssl"

NoCreds == [some |-> FALSE, val |-> <<>>]

has_all_scopes(c, required_scopes) ==
    c.some /\ required_scopes \subseteq c.val.scopes

\* lines 66-96: the credential and the token file before the final check,
\* or the consent flow having raised
credentials_before_check(tf, required_scopes, force_reauth, o) ==
    LET tf1 == IF force_reauth /\ tf.some THEN NoCreds ELSE tf
        loaded == IF tf1.some /\ o.load_ok
                  THEN Some([tf1.val EXCEPT !.scopes =
                                IF o.scopes_as_passed THEN required_scopes
                                ELSE tf1.val.scopes])
                  ELSE NoCreds
        refreshed == IF loaded.some /\ loaded.val.expired /\ loaded.val.refresh_token
                     THEN (IF o.refresh_ok
                           THEN Some([loaded.val EXCEPT !.expired = FALSE])
                           ELSE NoCreds)
                     ELSE loaded
    IN  IF has_all_scopes(refreshed, required_scopes)
        THEN [raised |-> FALSE, creds |-> refreshed, token_file |-> tf1,
              how |-> IF refreshed = loaded THEN "loaded" ELSE "refreshed"]
        ELSE IF o.flow_raises
        THEN [raised |-> TRUE, creds |-> NoCreds, token_file |-> tf1,
              how |-> "consent"]
        ELSE LET c == Some([scopes |-> o.granted, expired |-> FALSE,
                            refresh_token |-> TRUE])
             IN  [raised |-> FALSE, creds |-> c, token_file |-> c,
                  how |-> "consent"]

\* a mutant: the credential is returned without the final scope check
get_credentials_unchecked(tf, required_scopes, force_reauth, o) ==
    credentials_before_check(tf, required_scopes, force_reauth, o)

\* get_credentials: lines 100-103 raise when the scopes still do not cover
get_credentials(tf, required_scopes, force_reauth, o) ==
    LET r == credentials_before_check(tf, required_scopes, force_reauth, o)
    IN  IF r.raised THEN r
        ELSE IF ~has_all_scopes(r.creds, required_scopes)
        THEN [raised |-> TRUE, creds |-> NoCreds, token_file |-> r.token_file,
              how |-> r.how]
        ELSE r

GrantChoices(required_scopes) ==
    {required_scopes, SCOPES_BASE, {"yt-analytics.readonly"}}

CredOracles(required_scopes) ==
    [load_ok : BOOLEAN, scopes_as_passed : BOOLEAN, refresh_ok : BOOLEAN,
     flow_raises : BOOLEAN, granted : GrantChoices(required_scopes)]

TokenFiles ==
    {NoCreds}
    \cup {Some([scopes |-> sc, expired |-> ex[1], refresh_token |-> ex[2]]) :
            sc \in {SCOPES_BASE, SCOPES_BASE \cup {SCOPE_FORCE_SSL},
                    {"yt-analytics.readonly"}},
            ex \in {<<FALSE, TRUE>>, <<TRUE, TRUE>>, <<TRUE, FALSE>>}}

(***************************************************************************)
(* The output directory and the archive                                    *)
(*                                                                         *)
(* A directory is absent or a set of entries; an entry has a name, a kind  *)
(* (file, symlink or dir) and the run that wrote it.  The archive is       *)
(* absent or a set of members, each with its path inside the archive.      *)
(***************************************************************************)
OUT_DIR == "yt_analytics_data"
GITKEEP == ".gitkeep"

Entry(name, kind, by) == [name |-> name, kind |-> kind, by |-> by]

NoDir == [some |-> FALSE, val |-> {}]

\* a mutant: only files and symlinks are removed, directories stay
reset_out_dir_files_only(dir) ==
    [some |-> TRUE,
     val |-> {p \in dir.val : p.name = GITKEEP \/ p.kind = "dir"}]

\* reset_out_dir, lines 114-122: the directory is created when missing;
\* every entry but the one named .gitkeep is unlinked (file, symlink) or
\* removed as a tree (anything else)
reset_out_dir(dir) ==
    [some |-> TRUE,
     val |-> {p \in dir.val : p.name = GITKEEP}]

\* the names of lines 599 and 628, for the dates of this run
MetricsCsvName == "videos_daily_S_E.csv"
CommentsCsvName == "comments_S_E.csv"

\* save_csv, lines 448-468: to_csv creates or replaces the file at path
save_csv(dir, name) ==
    [dir EXCEPT !.val = {p \in dir.val : p.name # name}
                            \cup {Entry(name, "file", "this")}]

\* zip_out_dir, lines 125-135: make_archive opens the archive for writing,
\* which drops what it held, adds the directory itself and then every entry
\* found under it, each under the directory's name
make_archive(dir) ==
    [some |-> TRUE,
     val |-> {[path |-> <<OUT_DIR>>, by |-> "dir"]}
             \cup {[path |-> <<OUT_DIR, p.name>>, by |-> p.by] : p \in dir.val}]

\* what an earlier run, or the user since, left behind
EarlierCsvs ==
    {Entry(MetricsCsvName, "file", "earlier"),
     Entry(CommentsCsvName, "file", "earlier")}

EarlierOtherDates ==
    {Entry("videos_daily_S0_E0.csv", "file", "earlier"),
     Entry("comments_S0_E0.csv", "file", "earlier")}

Sentinel == Entry(GITKEEP, "file", "earlier")

DirOf(entries) == [some |-> TRUE, val |-> entries]

FileSystems ==
    {[out_dir |-> NoDir, archive |-> NoDir],
     [out_dir |-> DirOf({Sentinel} \cup EarlierCsvs),
      archive |-> make_archive(DirOf({Sentinel} \cup EarlierCsvs))],
     [out_dir |-> DirOf(EarlierOtherDates),
      archive |-> make_archive(DirOf(EarlierOtherDates))],
     [out_dir |-> DirOf({Sentinel, Entry("notes", "dir", "earlier"),
                         Entry("latest.csv", "symlink", "earlier")}),
      archive |-> make_archive(DirOf(EarlierCsvs \cup EarlierOtherDates))]}

(***************************************************************************)
(* main                                                                    *)
(***************************************************************************)
Max(a, b) == IF a > b THEN a ELSE b

NoTable == [some |-> FALSE, val |-> <<>>]

LocInit ==
    [metrics |-> <<>>, comments_per_video |-> 0, required_scopes |-> {},
     creds |-> NoCreds, creds_how |-> "none", yta |-> FALSE, youtube_opt |-> FALSE,
     video_ids |-> <<>>, title_map |-> <<>>, safe_sort |-> <<>>,
     dfs |-> <<>>, i |-> 0, metrics_df |-> NoTable,
     loop_raised |-> FALSE, combined_raised |-> FALSE,
     csv_metrics |-> NoTable, csv_comments |-> NoTable]

Call(api, what) == [api |-> api, what |-> what]

\* a mutant: the handler falls back whatever --no-fallback says
after_loop_error_always_fallback(no_fallback) == "fallback"

\* lines 584-588: where the handler of the loop's exception goes
after_loop_error(no_fallback) == IF no_fallback THEN "crashed" ELSE "fallback"

\* lines 501-516, reset_out_dir (line 512) included
MStart ==
    /\ pc = "start"
    /\ LET cpv == Max(args.comments, 0)
       IN  loc' = [loc EXCEPT
                !.metrics = sanitize_metrics(args.metrics),
                !.comments_per_video = cpv,
                !.required_scopes =
                    IF cpv > 0 THEN SCOPES_BASE \cup {SCOPE_FORCE_SSL}
                    ELSE SCOPES_BASE]
    /\ out_dir' = reset_out_dir(out_dir)
    /\ pc' = "auth"
    /\ UNCHANGED <<args, env, token_file, calls, archive>>

\* line 518
MGetCredentials ==
    /\ pc = "auth"
    /\ \E o \in CredOracles(loc.required_scopes) :
        LET r == get_credentials(token_file, loc.required_scopes, args.reauth, o)
        IN  /\ token_file' = r.token_file
            /\ loc' = [loc EXCEPT !.creds = r.creds, !.creds_how = r.how]
            /\ pc' = IF r.raised THEN "crashed" ELSE "build"
    /\ UNCHANGED <<args, env, calls, out_dir, archive>>

\* lines 519-526: a failure to build the Data API service is caught
MBuildServices ==
    /\ pc = "build"
    /\ \E data_ok \in BOOLEAN :
        loc' = [loc EXCEPT !.yta = TRUE, !.youtube_opt = data_ok]
    /\ pc' = "fetch"
    /\ UNCHANGED <<args, env, token_file, calls, out_dir, archive>>

\* lines 528-543: the external id list
MExternalLoad ==
    /\ pc = "fetch"
    /\ args.video_ids_file.some
    /\ LET ids == args.video_ids_file.val
       IN  \E titles_ok \in BOOLEAN :
            /\ loc' = [loc EXCEPT
                    !.video_ids = ids,
                    !.title_map = IF loc.youtube_opt /\ titles_ok
                                  THEN get_video_title_map(ids) ELSE <<>>,
                    !.safe_sort = _sanitize_sort_for_day_only(args.sort),
                    !.dfs = <<>>,
                    !.i = 1]
            /\ calls' = IF loc.youtube_opt
                        THEN Append(calls, Call("data", "videos.list"))
                        ELSE calls
    /\ pc' = "ext_query"
    /\ UNCHANGED <<args, env, token_file, out_dir, archive>>

\* lines 544-560: one pass of the for loop; an exception propagates
MExternalQuery ==
    /\ pc = "ext_query"
    /\ loc.i <= Len(loc.video_ids)
    /\ LET vid == loc.video_ids[loc.i]
           df == per_video_report(env.rows, vid, loc.metrics, loc.safe_sort,
                                  env.headers_on_empty)
           dfs == loop_collect(loc.dfs, df, vid, loc.title_map)
       IN  \E raises \in BOOLEAN :
            IF raises \/ ~df.ok \/ \E k \in 1..Len(dfs) : ~dfs[k].ok
            THEN pc' = "crashed" /\ UNCHANGED loc
            ELSE /\ loc' = [loc EXCEPT !.dfs = dfs, !.i = loc.i + 1]
                 /\ UNCHANGED pc
    /\ calls' = Append(calls, Call("analytics", "day"))
    /\ UNCHANGED <<args, env, token_file, out_dir, archive>>

\* lines 562-571
MExternalFinish ==
    /\ pc = "ext_query"
    /\ loc.i > Len(loc.video_ids)
    /\ LET concat == IF loc.dfs # <<>> THEN DfConcat(loc.dfs)
                     ELSE DefaultFrame(loc.metrics)
           df == IF ~DfEmpty(concat) THEN ReorderKeyCols(concat) ELSE concat
       IN  IF df.ok
           THEN loc' = [loc EXCEPT !.metrics_df = Some(df)] /\ pc' = "save"
           ELSE pc' = "crashed" /\ UNCHANGED loc
    /\ UNCHANGED <<args, env, token_file, calls, out_dir, archive>>

\* lines 573-583 and 370-380: loop mode up to its for loop; line 574 raises
\* when there is no Data API service, get_all_video_ids may raise, a failed
\* title lookup is caught
MLoopEnter ==
    /\ pc = "fetch"
    /\ ~args.video_ids_file.some
    /\ IF ~loc.youtube_opt
       THEN /\ loc' = [loc EXCEPT !.loop_raised = TRUE]
            /\ pc' = after_loop_error(args.no_fallback)
            /\ UNCHANGED calls
       ELSE \E enum_ok \in BOOLEAN, titles_ok \in BOOLEAN :
            IF ~enum_ok
            THEN /\ loc' = [loc EXCEPT !.loop_raised = TRUE]
                 /\ pc' = after_loop_error(args.no_fallback)
                 /\ calls' = Append(calls, Call("data", "channels.list"))
            ELSE /\ loc' = [loc EXCEPT
                        !.video_ids = env.uploads,
                        !.title_map = IF titles_ok
                                      THEN get_video_title_map(env.uploads)
                                      ELSE <<>>,
                        !.safe_sort = _sanitize_sort_for_day_only(args.sort),
                        !.dfs = <<>>,
                        !.i = 1]
                 /\ pc' = "loop_query"
                 /\ calls' = calls \o <<Call("data", "channels.list"),
                                        Call("data", "videos.list")>>
    /\ UNCHANGED <<args, env, token_file, out_dir, archive>>

\* lines 381-397: one pass of the for loop; an exception leaves the function
\* and reaches the handler of main
MLoopQuery ==
    /\ pc = "loop_query"
    /\ loc.i <= Len(loc.video_ids)
    /\ LET vid == loc.video_ids[loc.i]
           df == per_video_report(env.rows, vid, loc.metrics, loc.safe_sort,
                                  env.headers_on_empty)
           dfs == loop_collect(loc.dfs, df, vid, loc.title_map)
       IN  \E raises \in BOOLEAN :
            IF raises \/ ~df.ok \/ \E k \in 1..Len(dfs) : ~dfs[k].ok
            THEN /\ loc' = [loc EXCEPT !.loop_raised = TRUE]
                 /\ pc' = after_loop_error(args.no_fallback)
            ELSE /\ loc' = [loc EXCEPT !.dfs = dfs, !.i = loc.i + 1]
                 /\ UNCHANGED pc
    /\ calls' = Append(calls, Call("analytics", "day"))
    /\ UNCHANGED <<args, env, token_file, out_dir, archive>>

\* lines 399-410
MLoopFinish ==
    /\ pc = "loop_query"
    /\ loc.i > Len(loc.video_ids)
    /\ LET df == loop_merge(loc.dfs, loc.metrics)
       IN  IF df.ok
           THEN loc' = [loc EXCEPT !.metrics_df = Some(df)] /\ pc' = "save"
           ELSE /\ loc' = [loc EXCEPT !.loop_raised = TRUE]
                /\ pc' = after_loop_error(args.no_fallback)
    /\ UNCHANGED <<args, env, token_file, calls, out_dir, archive>>

\* lines 589-597 and 413-445: the combined query; its exception propagates
MFallback ==
    /\ pc = "fallback"
    /\ LET report == combined_report(env.rows, loc.metrics, Some(<<"day">>),
                                     env.headers_on_empty)
       IN  \E raises \in BOOLEAN, titles_ok \in BOOLEAN :
            LET df == combined_finish(report,
                            IF ~loc.youtube_opt THEN "none"
                            ELSE IF titles_ok THEN "ok" ELSE "raise")
            IN  /\ IF raises \/ ~report.ok \/ ~df.ok
                   THEN /\ loc' = [loc EXCEPT !.combined_raised = TRUE]
                        /\ pc' = "crashed"
                   ELSE /\ loc' = [loc EXCEPT !.metrics_df = Some(df)]
                        /\ pc' = "save"
                /\ calls' = calls \o <<Call("analytics", "video,day")>>
                       \o (IF ~raises /\ report.ok /\ ~DfEmpty(report)
                              /\ loc.youtube_opt
                           THEN <<Call("data", "videos.list")>> ELSE <<>>)
    /\ UNCHANGED <<args, env, token_file, out_dir, archive>>

\* lines 599-601
MSaveMetrics ==
    /\ pc = "save"
    /\ loc' = [loc EXCEPT !.csv_metrics = loc.metrics_df]
    /\ out_dir' = save_csv(out_dir, MetricsCsvName)
    /\ pc' = "comments"
    /\ UNCHANGED <<args, env, token_file, calls, archive>>

CommentsWanted ==
    /\ loc.comments_per_video > 0
    /\ loc.youtube_opt
    /\ ~DfEmpty(loc.metrics_df.val)

\* lines 603-609: no comment export
MCommentsSkip ==
    /\ pc = "comments"
    /\ ~CommentsWanted
    /\ pc' = "zip"
    /\ UNCHANGED <<args, env, loc, token_file, calls, cmVars, out_dir, archive>>

\* lines 611-626: the call of fetch_latest_comments
MCommentsStart ==
    /\ pc = "comments"
    /\ CommentsWanted
    /\ LET ids == UniqueVideoIds(loc.metrics_df.val)
       IN  /\ \E titles_ok \in BOOLEAN :
                cm_title_map' = IF titles_ok THEN get_video_title_map(ids) ELSE <<>>
           /\ cm_video_ids' = ids
           /\ cm_considered' = [k \in 1..Len(ids) |-> 0]
           /\ cm_stopped' = [k \in 1..Len(ids) |-> FALSE]
    /\ cm_per_video' = loc.comments_per_video
    /\ cm_since' = [some |-> TRUE, val |-> SinceDt]
    /\ cm_until' = [some |-> TRUE, val |-> UntilDt]
    /\ cm_idx' = 1
    /\ cm_remaining' = 0
    /\ cm_page_token' = None
    /\ cm_rows' = <<>>
    /\ cm_pc' = "for"
    /\ cm_result' = None
    /\ cm_log' = <<>>
    /\ cm_errors' = <<>>
    /\ calls' = Append(calls, Call("data", "videos.list"))
    /\ pc' = "comments_fetch"
    /\ UNCHANGED <<args, env, loc, token_file, out_dir, archive>>

\* lines 628-630
MCommentsSaved ==
    /\ pc = "comments_fetch"
    /\ cm_pc = "returned"
    /\ loc' = [loc EXCEPT !.csv_comments = cm_result]
    /\ out_dir' = save_csv(out_dir, CommentsCsvName)
    /\ pc' = "zip"
    /\ UNCHANGED <<args, env, token_file, calls, cmVars, archive>>

\* an exception of fetch_latest_comments propagates
MCommentsRaised ==
    /\ pc = "comments_fetch"
    /\ cm_pc = "raised"
    /\ pc' = "crashed"
    /\ UNCHANGED <<args, env, loc, token_file, calls, cmVars, out_dir, archive>>

\* line 632
MZip ==
    /\ pc = "zip"
    /\ archive' = make_archive(out_dir)
    /\ pc' = "done"
    /\ UNCHANGED <<args, env, loc, token_file, calls, cmVars, out_dir>>

IdsFileChoices == {None, Some(<< <<"v1">> >>), Some(<< <<"v2">>, <<"v1">> >>)}

\* main from its first line, on a small data set
MainInit ==
    /\ args \in [metrics : {<<"views", ",", "watchTime">>},
                 sort : {Some(<<"day", ",", "video">>)},
                 reauth : BOOLEAN,
                 video_ids_file : {None, Some(<< <<"v1">> >>)},
                 comments : {0, 1},
                 no_fallback : BOOLEAN]
    /\ env \in [rows : {{}, {<< <<"v1">>, <<"d1">> >>}},
                uploads : {<< <<"v1">>, <<"v2">> >>},
                headers_on_empty : {TRUE},
                token_file : TokenFiles,
                files : {[out_dir |-> NoDir, archive |-> NoDir]}]
    /\ token_file = env.token_file
    /\ out_dir = env.files.out_dir
    /\ archive = env.files.archive
    /\ pc = "start"
    /\ loc = LocInit
    /\ calls = <<>>

\* main from its first line, on every directory and archive left behind
FilesInit ==
    /\ args \in [metrics : {<<"views", ",", "watchTime">>},
                 sort : {Some(<<"day", ",", "video">>)},
                 reauth : {FALSE},
                 video_ids_file : {None, Some(<< <<"v1">> >>)},
                 comments : {0, 1},
                 no_fallback : BOOLEAN]
    /\ env \in [rows : {{}, {<< <<"v1">>, <<"d1">> >>}},
                uploads : {<< <<"v1">>, <<"v2">> >>},
                headers_on_empty : {TRUE},
                token_file : {Some([scopes |-> SCOPES_BASE \cup {SCOPE_FORCE_SSL},
                                    expired |-> FALSE, refresh_token |-> TRUE])},
                files : FileSystems]
    /\ token_file = env.token_file
    /\ out_dir = env.files.out_dir
    /\ archive = env.files.archive
    /\ pc = "start"
    /\ loc = LocInit
    /\ calls = <<>>

\* main once the services are built (line 528), on every data set
AggInit ==
    /\ args \in [metrics : {<<"views", ",", "watchTime">>},
                 sort : {Some(<<"day", ",", "video">>), Some(<<"-", "day">>)},
                 reauth : {FALSE},
                 video_ids_file : IdsFileChoices,
                 comments : {0},
                 no_fallback : BOOLEAN]
    /\ env \in [rows : SUBSET (Videos \X Days),
                uploads : UploadLists,
                headers_on_empty : BOOLEAN,
                token_file : {Some([scopes |-> SCOPES_BASE, expired |-> FALSE,
                                    refresh_token |-> TRUE])},
                files : {[out_dir |-> NoDir, archive |-> NoDir]}]
    /\ token_file = env.token_file
    /\ out_dir = reset_out_dir(env.files.out_dir)
    /\ archive = env.files.archive
    /\ pc = "fetch"
    /\ \E data_ok \in BOOLEAN :
        loc = [LocInit EXCEPT
                !.metrics = sanitize_metrics(args.metrics),
                !.required_scopes = SCOPES_BASE,
                !.creds = token_file,
                !.creds_how = "loaded",
                !.yta = TRUE,
                !.youtube_opt = data_ok]
    /\ calls = <<>>

MainIdle ==
    /\ args = <<>>
    /\ env = <<>>
    /\ token_file = NoCreds
    /\ pc = "off"
    /\ loc = LocInit
    /\ calls = <<>>
    /\ out_dir = NoDir
    /\ archive = NoDir

(***************************************************************************)
(* Specifications.                                                         *)
(***************************************************************************)
SpecSortInit == SortInit /\ MetIdle /\ RRIdle /\ CMIdle /\ EQIdle /\ MainIdle
SpecSortNext == SanitizeSort /\ UNCHANGED <<metVars, rrVars, cmVars, eqVars, mainVars>>
SpecSort == SpecSortInit /\ [][SpecSortNext]_vars

SpecMetricsInit == MetInit /\ SortIdle /\ RRIdle /\ CMIdle /\ EQIdle /\ MainIdle
SpecMetricsNext ==
    \/ SanitizeMetrics /\ UNCHANGED <<sortVars, rrVars, cmVars, eqVars, mainVars>>
    \/ SanitizeMetricsAgain /\ UNCHANGED <<sortVars, rrVars, cmVars, eqVars, mainVars>>
SpecMetrics == SpecMetricsInit /\ [][SpecMetricsNext]_vars

SpecReportInit == RRInit /\ SortIdle /\ MetIdle /\ CMIdle /\ EQIdle /\ MainIdle
SpecReportNext == RunReportPage /\ UNCHANGED <<sortVars, metVars, cmVars, eqVars, mainVars>>
SpecReport == SpecReportInit /\ [][SpecReportNext]_vars

SpecCommentsInit == CMInit /\ SortIdle /\ MetIdle /\ RRIdle /\ EQIdle /\ MainIdle
SpecCommentsNext ==
    \/ CmForNext /\ UNCHANGED <<sortVars, metVars, rrVars, eqVars, mainVars>>
    \/ CmReturn /\ UNCHANGED <<sortVars, metVars, rrVars, eqVars, mainVars>>
    \/ CmWhileExit /\ UNCHANGED <<sortVars, metVars, rrVars, eqVars, mainVars>>
    \/ CmPage /\ UNCHANGED <<sortVars, metVars, rrVars, eqVars, mainVars>>
    \/ CmError /\ UNCHANGED <<sortVars, metVars, rrVars, eqVars, mainVars>>
SpecComments == SpecCommentsInit /\ [][SpecCommentsNext]_vars

SpecEquivInit == EQInit /\ SortIdle /\ MetIdle /\ RRIdle /\ CMIdle /\ MainIdle
SpecEquivNext ==
    \/ EqRunLoop /\ UNCHANGED <<sortVars, metVars, rrVars, cmVars, mainVars>>
    \/ EqRunCombined /\ UNCHANGED <<sortVars, metVars, rrVars, cmVars, mainVars>>
SpecEquiv == SpecEquivInit /\ [][SpecEquivNext]_vars

otherVars == <<sortVars, metVars, rrVars, eqVars>>

SpecAggInit == AggInit /\ SortIdle /\ MetIdle /\ RRIdle /\ CMIdle /\ EQIdle
SpecAggNext ==
    \/ MExternalLoad /\ UNCHANGED <<otherVars, cmVars>>
    \/ MExternalQuery /\ UNCHANGED <<otherVars, cmVars>>
    \/ MExternalFinish /\ UNCHANGED <<otherVars, cmVars>>
    \/ MLoopEnter /\ UNCHANGED <<otherVars, cmVars>>
    \/ MLoopQuery /\ UNCHANGED <<otherVars, cmVars>>
    \/ MLoopFinish /\ UNCHANGED <<otherVars, cmVars>>
    \/ MFallback /\ UNCHANGED <<otherVars, cmVars>>
    \/ MSaveMetrics /\ UNCHANGED <<otherVars, cmVars>>
SpecAgg == SpecAggInit /\ [][SpecAggNext]_vars

SpecMainInit == MainInit /\ SortIdle /\ MetIdle /\ RRIdle /\ CMIdle /\ EQIdle
SpecMainNext ==
    \/ MStart /\ UNCHANGED <<otherVars, cmVars>>
    \/ MGetCredentials /\ UNCHANGED <<otherVars, cmVars>>
    \/ MBuildServices /\ UNCHANGED <<otherVars, cmVars>>
    \/ MExternalLoad /\ UNCHANGED <<otherVars, cmVars>>
    \/ MExternalQuery /\ UNCHANGED <<otherVars, cmVars>>
    \/ MExternalFinish /\ UNCHANGED <<otherVars, cmVars>>
    \/ MLoopEnter /\ UNCHANGED <<otherVars, cmVars>>
    \/ MLoopQuery /\ UNCHANGED <<otherVars, cmVars>>
    \/ MLoopFinish /\ UNCHANGED <<otherVars, cmVars>>
    \/ MFallback /\ UNCHANGED <<otherVars, cmVars>>
    \/ MSaveMetrics /\ UNCHANGED <<otherVars, cmVars>>
    \/ MCommentsSkip /\ UNCHANGED otherVars
    \/ MCommentsStart /\ UNCHANGED otherVars
    \/ (pc = "comments_fetch" /\ CmForNext /\ UNCHANGED <<otherVars, mainVars>>)
    \/ (pc = "comments_fetch" /\ CmReturn /\ UNCHANGED <<otherVars, mainVars>>)
    \/ (pc = "comments_fetch" /\ CmWhileExit /\ UNCHANGED <<otherVars, mainVars>>)
    \/ (pc = "comments_fetch" /\ CmPage /\ UNCHANGED <<otherVars, mainVars>>)
    \/ (pc = "comments_fetch" /\ CmError /\ UNCHANGED <<otherVars, mainVars>>)
    \/ MCommentsSaved /\ UNCHANGED otherVars
    \/ MCommentsRaised /\ UNCHANGED otherVars
    \/ MZip /\ UNCHANGED otherVars
SpecMain == SpecMainInit /\ [][SpecMainNext]_vars

SpecFilesInit == FilesInit /\ SortIdle /\ MetIdle /\ RRIdle /\ CMIdle /\ EQIdle
SpecFiles == SpecFilesInit /\ [][SpecMainNext]_vars

(***************************************************************************)
(* C1 (as amended): against an endpoint serving N rows by offset with page *)
(* size P, run_report issues exactly floor(N/P) + 1 requests, the k-th     *)
(* (k = 0, 1, ...) with startIndex = 1 + k*P; the loop never runs past     *)
(* that count, so it terminates.                                           *)
(***************************************************************************)
CeilDiv(n, p) == (n + p - 1) \div p

C1_Pagination ==
    /\ \A k \in 1..Len(rr_requests) : rr_requests[k] = 1 + (k - 1) * rr_P
    /\ rr_pc = "loop" => Len(rr_requests) <= rr_N \div rr_P
    /\ rr_pc \in {"returned", "raised"} =>
            Len(rr_requests) = (rr_N \div rr_P) + 1
    /\ rr_pc = "returned" => Len(rr_df.rows) = rr_N

C1_Witness ==
    /\ rr_pc = "returned"
    /\ rr_N = 4
    /\ rr_P = 2
    /\ rr_requests = <<1, 3, 5>>

\* C1 as stated: exactly ceil(N/P) requests
C1_Original ==
    rr_pc \in {"returned", "raised"} =>
        /\ Len(rr_requests) = CeilDiv(rr_N, rr_P)
        /\ \A k \in 1..Len(rr_requests) : rr_requests[k] = 1 + (k - 1) * rr_P

(***************************************************************************)
(* The header run_report keeps is the one of its first response, which is  *)
(* the first non-empty page whenever any page has rows; later headers do   *)
(* not change it.  With no rows at all the table has no rows and the       *)
(* columns of that first response (none if it carried none).               *)
(***************************************************************************)
HeaderFromFirstPage ==
    rr_pc = "returned" =>
        /\ rr_df.cols = rr_pages[1].columnHeaders
        /\ \A i \in 1..Len(rr_pages) :
              (rr_pages[i].rows # <<>> /\ \A j \in 1..(i - 1) : rr_pages[j].rows = <<>>)
                  => rr_df.cols = rr_pages[i].columnHeaders
        /\ (\A i \in 1..Len(rr_pages) : rr_pages[i].rows = <<>>) => rr_df.rows = <<>>

(***************************************************************************)
(* C2: on every data set, the empty one included, videos_daily_via_loop    *)
(* and videos_daily_via_analytics_only return tables with the same column  *)
(* set and the same set of rows, both with the schema videoId, videoTitle, *)
(* day, <metric columns in header order>.                                  *)
(***************************************************************************)
ColSet(df) == {df.cols[i] : i \in 1..Len(df.cols)}

\* a row as the mapping from column name to cell
RowSet(df) ==
    {[c \in ColSet(df) |-> df.rows[r][IndexOf(df.cols, c)]] : r \in 1..Len(df.rows)}

SchemaOf(metrics) == KEY_COLS \o Split(metrics)

C2_FallbackEquivalence ==
    (eq_loop_df.some /\ eq_comb_df.some) =>
        /\ eq_loop_df.val.ok /\ eq_comb_df.val.ok
        /\ ColSet(eq_loop_df.val) = ColSet(eq_comb_df.val)
        /\ RowSet(eq_loop_df.val) = RowSet(eq_comb_df.val)
        /\ eq_loop_df.val.cols = SchemaOf(eq_metrics)
        /\ eq_comb_df.val.cols = SchemaOf(eq_metrics)

\* the same, for the data sets that hold at least one row
EquivalentWhenNonEmpty ==
    (eq_loop_df.some /\ eq_comb_df.some /\ eq_rows # {}) =>
        /\ eq_loop_df.val.ok /\ eq_comb_df.val.ok
        /\ RowSet(eq_loop_df.val) = RowSet(eq_comb_df.val)
        /\ Cardinality(RowSet(eq_loop_df.val)) = Cardinality(eq_rows)
        /\ eq_loop_df.val.cols = SchemaOf(eq_metrics)
        /\ eq_comb_df.val.cols = SchemaOf(eq_metrics)

\* loop mode gives an empty data set the default columns
LoopDefaultsWhenEmpty ==
    (eq_loop_df.some /\ eq_rows = {}) =>
        /\ eq_loop_df.val.rows = <<>>
        /\ eq_loop_df.val.cols = SchemaOf(eq_metrics)

(***************************************************************************)
(* C3: whichever path main takes (loop mode, the combined fallback, the    *)
(* external id list), a metrics table with at least one row has the        *)
(* columns videoId, videoTitle, day first, in that order, followed by the  *)
(* metric columns.                                                         *)
(***************************************************************************)
FetchPath ==
    IF args.video_ids_file.some THEN "external"
    ELSE IF loc.loop_raised THEN "combined"
    ELSE "loop"

C3_KeyColumnsFirst ==
    (loc.metrics_df.some /\ loc.metrics_df.val.rows # <<>>) =>
        LET df == loc.metrics_df.val
        IN  /\ Len(df.cols) >= 3
            /\ SubSeq(df.cols, 1, 3)
                  = << <<"videoId">>, <<"videoTitle">>, <<"day">> >>
            /\ SubSeq(df.cols, 4, Len(df.cols)) = Split(loc.metrics)
            /\ \A r \in 1..Len(df.rows) :
                  /\ df.rows[r][1] \in Videos
                  /\ df.rows[r][3] \in Days
                  /\ <<df.rows[r][1], df.rows[r][3]>> \in env.rows

C3_Witness ==
    /\ FetchPath = "combined"
    /\ pc = "comments"
    /\ loc.csv_metrics.some
    /\ Len(loc.csv_metrics.val.rows) = 4
    /\ loc.csv_metrics.val.rows[1][2] = <<"title1">>

\* the other two paths are reached with rows as well
LoopPathReached ==
    ~(FetchPath = "loop" /\ pc = "comments" /\ Len(loc.metrics_df.val.rows) = 4)

ExternalPathReached ==
    ~(FetchPath = "external" /\ pc = "comments" /\ Len(loc.metrics_df.val.rows) = 4)

(***************************************************************************)
(* C4: the columns of the table of a metric query are the header of its    *)
(* first page with rows; if every page is empty the table has no rows but  *)
(* still carries the caller's default columns (videoId, videoTitle, day    *)
(* and the metric names).                                                  *)
(***************************************************************************)
C4_HeaderOrDefaultColumns ==
    loc.metrics_df.some =>
        LET df == loc.metrics_df.val
        IN  /\ df.rows # <<>> =>
                SubSeq(df.cols, 3, Len(df.cols))
                    = ResponseHeader(<< <<"day">> >>, loc.metrics, df.rows, TRUE)
            /\ env.rows = {} =>
                /\ df.rows = <<>>
                /\ df.cols = KEY_COLS \o MetricNames(loc.metrics)

(***************************************************************************)
(* C6: without an external id list, when loop mode raises (no Data API     *)
(* service, enumeration failure, the query of any one video) and fallback  *)
(* is not disabled, the combined query runs exactly once and its table     *)
(* alone is the metrics table; with fallback disabled the error propagates *)
(* and no metrics CSV is written; an error of the combined query           *)
(* propagates, with no second fallback.                                    *)
(***************************************************************************)
CombinedQueries ==
    Len(SelectSeq(calls, LAMBDA c : c = Call("analytics", "video,day")))

CombinedTables ==
    {videos_daily_via_analytics_only(env.rows, t, loc.metrics, Some(<<"day">>),
                                     env.headers_on_empty) :
        t \in {"ok", "raise", "none"}}

C6_FallbackSemantics ==
    /\ CombinedQueries <= 1
    /\ ~loc.loop_raised => CombinedQueries = 0 /\ pc # "fallback"
    /\ (loc.loop_raised /\ ~args.no_fallback) =>
          /\ ~args.video_ids_file.some
          /\ pc \in {"fallback", "save", "comments", "crashed"}
          /\ pc = "fallback" => CombinedQueries = 0 /\ ~loc.metrics_df.some
          /\ pc \in {"save", "comments"} =>
                /\ CombinedQueries = 1
                /\ loc.metrics_df.some
                /\ loc.metrics_df.val \in CombinedTables
                /\ Len(loc.metrics_df.val.rows) = Cardinality(env.rows)
          /\ pc = "crashed" =>
                /\ loc.combined_raised
                /\ CombinedQueries = 1
                /\ ~loc.metrics_df.some
                /\ ~loc.csv_metrics.some
    /\ (loc.loop_raised /\ args.no_fallback) =>
          /\ pc = "crashed"
          /\ CombinedQueries = 0
          /\ ~loc.metrics_df.some
          /\ ~loc.csv_metrics.some
    /\ loc.csv_metrics.some => loc.csv_metrics = loc.metrics_df

\* the loop had collected the rows of one video when the query of the next
\* one raised; the combined table is written
C6_Witness ==
    /\ loc.loop_raised
    /\ loc.dfs # <<>>
    /\ loc.i = 2
    /\ pc = "comments"
    /\ CombinedQueries = 1
    /\ Len(loc.csv_metrics.val.rows) = 3

(***************************************************************************)
(* C5: get_credentials returns a credential only when the scopes it        *)
(* reports cover the required ones and raises otherwise; main builds no    *)
(* service and calls no API before get_credentials has returned, so every  *)
(* API call is made with a credential whose scopes cover the required      *)
(* ones, whether it was loaded, refreshed or obtained by consent.          *)
(***************************************************************************)
ApiUsed == loc.yta \/ loc.youtube_opt \/ calls # <<>> \/ cm_log # <<>>

CredentialsRefused ==
    ~(pc = "crashed" /\ ~loc.creds.some /\ token_file.some
      /\ ~(loc.required_scopes \subseteq token_file.val.scopes))

(***************************************************************************)
(* C11: once get_credentials has returned, a credential it changed (by a   *)
(* silent refresh of an expired one, or by the consent flow) is what the   *)
(* token file holds, and a loaded credential used unchanged leaves the     *)
(* token file as it was before the call.                                   *)
(***************************************************************************)
CredentialsReturned == pc \notin {"start", "auth", "crashed"}

C11_TokenFilePersisted ==
    CredentialsReturned =>
        /\ loc.creds_how \in {"refreshed", "consent"} => token_file = loc.creds
        /\ loc.creds_how = "loaded" => token_file = env.token_file

\* what the code does keep: the consent flow's credential is written to the
\* token file, and a file that was loaded is never rewritten or removed on
\* the loaded and refreshed paths
ConsentPersistedLoadedUntouched ==
    CredentialsReturned =>
        /\ loc.creds_how = "consent" => token_file = loc.creds
        /\ loc.creds_how \in {"loaded", "refreshed"} => token_file = env.token_file

\* the refreshed credential is returned and the token file still holds the
\* expired one
RefreshedNotPersisted ==
    ~(/\ CredentialsReturned
      /\ loc.creds_how = "refreshed"
      /\ token_file = env.token_file
      /\ token_file.val.expired
      /\ ~loc.creds.val.expired)

(***************************************************************************)
(* C12: when a run of main has completed, whatever directory and archive   *)
(* an earlier run left, the output directory holds the .gitkeep placeholder*)
(* (if it was there) and the CSV files this run wrote, nothing else, and   *)
(* the archive holds the directory with exactly these entries; during the  *)
(* run the directory is cleared before any file is written, and the        *)
(* archive is written only after the last CSV, by the last step.           *)
(***************************************************************************)
KeptSentinel ==
    IF env.files.out_dir.some
    THEN {p \in env.files.out_dir.val : p.name = GITKEEP}
    ELSE {}

WrittenByThisRun ==
    (IF loc.csv_metrics.some THEN {Entry(MetricsCsvName, "file", "this")} ELSE {})
    \cup (IF loc.csv_comments.some THEN {Entry(CommentsCsvName, "file", "this")}
          ELSE {})

ArchivedEntries ==
    {<<m.path[2], m.by>> : m \in {x \in archive.val : Len(x.path) = 2}}

C12_NoStaleOutput ==
    /\ pc = "start" => out_dir = env.files.out_dir /\ archive = env.files.archive
    /\ pc # "start" =>
          /\ out_dir.some
          /\ out_dir.val = KeptSentinel \cup WrittenByThisRun
    /\ pc \in {"auth", "build", "fetch", "ext_query", "loop_query", "fallback",
               "save"} => WrittenByThisRun = {}
    /\ pc # "done" => archive = env.files.archive
    /\ pc = "done" =>
          /\ loc.csv_metrics.some
          /\ archive.some
          /\ \A m \in archive.val : m.path[1] = OUT_DIR /\ Len(m.path) <= 2
          /\ ArchivedEntries = {<<p.name, p.by>> : p \in out_dir.val}
          /\ \A m \in archive.val :
                m.by = "earlier" => m.path = <<OUT_DIR, GITKEEP>>
          /\ \A p \in out_dir.val : p.by = "earlier" => p.name = GITKEEP

\* a completed run over a directory and an archive that held the earlier
\* run's CSV files under the very names this run writes
C12_Witness ==
    /\ pc = "done"
    /\ Entry(MetricsCsvName, "file", "earlier") \in env.files.out_dir.val
    /\ [path |-> <<OUT_DIR, CommentsCsvName>>, by |-> "earlier"]
            \in env.files.archive.val
    /\ Sentinel \in out_dir.val
    /\ loc.csv_comments.some
    /\ Cardinality(archive.val) = 4

\* a completed run over a directory that held a subdirectory and a symlink
C12_WitnessTree ==
    /\ pc = "done"
    /\ Entry("notes", "dir", "earlier") \in env.files.out_dir.val
    /\ ~loc.csv_comments.some

\* a run that stops on an error leaves the earlier archive beside the
\* cleared directory
CrashKeepsEarlierArchive ==
    ~(/\ pc = "crashed"
      /\ archive.some
      /\ archive = env.files.archive
      /\ out_dir.val = KeptSentinel \cup WrittenByThisRun)

(***************************************************************************)
(* C7: for every sort string (absent or empty included) the result of      *)
(* _sanitize_sort_for_day_only has no key naming video (any leading '-'),  *)
(* has a key naming day, keeps the surviving input keys in their order     *)
(* and sign, and has 'day' put first exactly when no day key survived.     *)
(***************************************************************************)
NamesKey(k, word) ==
    /\ Len(k) >= 1
    /\ k[Len(k)] = word
    /\ \A i \in 1..(Len(k) - 1) : k[i] = "-"

\* the keys of the input: its comma-separated pieces, trimmed, blanks dropped
InputKeys(sort) ==
    IF ~sort.some THEN <<>>
    ELSE SelectSeq(MapStrip(Split(sort.val)), NonEmpty)

Survivors(sort) == SelectSeq(InputKeys(sort), LAMBDA k : ~NamesKey(k, "video"))

C7_SortSanitized ==
    sort_pc = "returned" =>
        LET keys == Split(sort_out)
            surv == Survivors(sort_in)
            dayKept == \E i \in 1..Len(surv) : NamesKey(surv[i], "day")
        IN  /\ \A i \in 1..Len(keys) : ~NamesKey(keys[i], "video")
            /\ \E i \in 1..Len(keys) : NamesKey(keys[i], "day")
            /\ dayKept => keys = surv
            /\ ~dayKept => keys = << <<"day">> >> \o surv
            /\ sort_in = Some(<<"video", ",", "-", "day">>) => sort_out = <<"-", "day">>
            /\ sort_in = Some(<<"video">>) => sort_out = <<"day">>

C7_Witness ==
    /\ sort_pc = "returned"
    /\ sort_in = Some(<<"-", "video", ",", "views">>)
    /\ sort_out = <<"day", ",", "views">>

(***************************************************************************)
(* C8: sanitize_metrics is idempotent; its output holds no alias and no    *)
(* duplicate, and the canonical names come in the order of their first     *)
(* occurrence in the input.                                                *)
(***************************************************************************)
Aliases ==
    {<<"watchTime">>, <<"avgViewDuration">>, <<"avg_view_duration">>,
     <<"estimated_watch_time_minutes">>}

Canonical(name) ==
    IF name = <<"watchTime">> \/ name = <<"estimated_watch_time_minutes">>
    THEN <<"estimatedMinutesWatched">>
    ELSE IF name = <<"avgViewDuration">> \/ name = <<"avg_view_duration">>
    THEN <<"averageViewDuration">>
    ELSE name

\* position of the first input name whose canonical form is c (0 if none)
FirstOccurrence(names, c) ==
    IF \E i \in 1..Len(names) : Canonical(names[i]) = c
    THEN CHOOSE i \in 1..Len(names) :
            /\ Canonical(names[i]) = c
            /\ \A j \in 1..(i - 1) : Canonical(names[j]) # c
    ELSE 0

C8_MetricsNormalized ==
    LET names == SelectSeq(MapStrip(Split(met_in)), NonEmpty)
        out == IF met_out = <<>> THEN <<>> ELSE Split(met_out)
    IN  /\ met_pc \in {"once", "twice"} =>
            /\ \A i \in 1..Len(out) : out[i] \notin Aliases
            /\ \A i, j \in 1..Len(out) : i # j => out[i] # out[j]
            /\ {out[i] : i \in 1..Len(out)}
                 = {Canonical(names[i]) : i \in 1..Len(names)}
            /\ \A i, j \in 1..Len(out) :
                 i < j => FirstOccurrence(names, out[i]) < FirstOccurrence(names, out[j])
            /\ met_in = <<"views", ",", "watchTime", ",", "views">>
                 => met_out = <<"views", ",", "estimatedMinutesWatched">>
        /\ met_pc = "twice" => met_out2 = met_out

C8_Witness ==
    /\ met_pc = "twice"
    /\ met_in = <<"watchTime", ",", "views", ",", "watchTime">>
    /\ met_out = <<"estimatedMinutesWatched", ",", "views">>
    /\ met_out2 = met_out
(***************************************************************************)
(* C9: in fetch_latest_comments the per-video quota counts the items       *)
(* considered: each request asks for min(per_video - items already         *)
(* returned for the video, 100), no request follows an empty page, a page  *)
(* without next token or the quota being used up, the items considered     *)
(* and the rows emitted for a video never exceed per_video, and            *)
(* per_video = 0 issues no request.                                        *)
(***************************************************************************)
RECURSIVE RowsOfVideo(_, _)
\* the number of rows the chunks hold for one video
RowsOfVideo(chunks, vid) ==
    IF chunks = <<>> THEN 0
    ELSE (IF Head(chunks).videoId = vid THEN Head(chunks).count ELSE 0)
         + RowsOfVideo(Tail(chunks), vid)

C9_CommentQuota ==
    /\ \A k \in 1..Len(cm_log) :
          /\ cm_log[k].maxResults
                = Min(cm_per_video - cm_log[k].consideredBefore, 100)
          /\ cm_log[k].maxResults >= 1
          /\ ~cm_log[k].afterStop
    /\ \A i \in 1..Len(cm_video_ids) :
          /\ cm_considered[i] <= cm_per_video
          /\ RowsOfVideo(cm_rows, cm_video_ids[i]) <= cm_considered[i]
    /\ cm_pc = "while" => cm_remaining = cm_per_video - cm_considered[cm_idx]
    /\ cm_per_video = 0 => cm_log = <<>>

C9_Witness ==
    /\ cm_pc = "returned"
    /\ cm_per_video = COMMENT_PAGE_MAX + 2
    /\ Len(cm_log) = 2
    /\ cm_log[1].maxResults = COMMENT_PAGE_MAX
    /\ cm_log[2].maxResults = 2
    /\ cm_considered[1] = cm_per_video
    /\ RowsOfVideo(cm_rows, cm_video_ids[1]) = COMMENT_PAGE_MAX - 1

(***************************************************************************)
(* C10: a permission, comments-disabled or video-not-found error on any    *)
(* page of a video ends the paging of that video only: the rows collected  *)
(* so far stay, and every later video is still requested; any other error  *)
(* aborts the fetch, and no table is returned.                             *)
(***************************************************************************)
RecognizedNonFatal(e) ==
    /\ e.http
    /\ e.msg \in {<<"insufficientPermissions">>, <<"forbidden">>,
                  <<"commentsDisabled">>, <<"disabled comments">>,
                  <<"videoNotFound">>}

IsPrefix(a, b) == Len(a) <= Len(b) /\ SubSeq(b, 1, Len(a)) = a

C10_CommentErrors ==
    /\ \A k \in 1..Len(cm_errors) :
          /\ IsPrefix(cm_errors[k].rowsBefore, cm_rows)
          /\ k < Len(cm_errors) => RecognizedNonFatal(cm_errors[k].err)
          \* the video of the error is not requested again
          /\ \A j \in 1..Len(cm_log) :
                cm_log[j].idx = cm_errors[k].idx => ~cm_log[j].afterStop
    /\ cm_pc = "raised" <=>
          (cm_errors # <<>> /\ ~RecognizedNonFatal(cm_errors[Len(cm_errors)].err))
    /\ cm_pc = "raised" => cm_result = None
    /\ cm_pc = "returned" =>
          /\ cm_result = Some(cm_rows)
          /\ cm_per_video > 0 =>
                \A i \in 1..Len(cm_video_ids) :
                    \E j \in 1..Len(cm_log) : cm_log[j].idx = i

C10_Witness ==
    /\ cm_pc = "returned"
    /\ Len(cm_video_ids) = 2
    /\ Len(cm_errors) = 1
    /\ cm_errors[1].idx = 1
    /\ cm_errors[1].err.msg = <<"commentsDisabled">>
    /\ cm_errors[1].rowsBefore # <<>>
    /\ RowsOfVideo(cm_rows, cm_video_ids[1]) > 0
    /\ RowsOfVideo(cm_rows, cm_video_ids[2]) > 0
====
